---- MODULE Spec2Model ----
(***************************************************************************)
(* Two scripts of the repository:                                          *)
(*   tools/function_traits_permute.py  the emitter of the permute! macro   *)
(*   scripts/py/linked_list.py         a singly linked list and its demo   *)
(* Each script is a sequential program; its position is a pc variable.     *)
(* A line of the output file is a record: `text` holds the literal text of *)
(* the line (for a call line, the text around the argument list), `arity`  *)
(* the rendered str(repeat) and `groups` the slot groups in order, each    *)
(* group holding the seven rendered fields of the f-string of line 34.     *)
(***************************************************************************)
EXTENDS Integers, Sequences, FiniteSets, TLC

\* -------------------------------------------------------------------------
\* Bounds of the exploration

\* how many times the emitter is run in a row
MaxRuns == 2
\* how many values are pushed on the list
MaxPush == 3
\* how many iterations over the list are started
MaxIters == 2
\* the values pushed are 1..MaxValue
MaxValue == 2

\* -------------------------------------------------------------------------
\* tools/function_traits_permute.py : configuration

\* vars = ['A', 'B', 'C', 'D', 'E']
Vars == <<"A", "B", "C", "D", "E">>

\* the list handed to itertools.product, in its order
Modes == <<"Owned", "Ref", "Mut">>

\* name = this.parts[-1]
Name == "function_traits_permute.py"

\* str.lower() on the slot names
Lower(var) ==
    CASE var = "A" -> "a"
      [] var = "B" -> "b"
      [] var = "C" -> "c"
      [] var = "D" -> "d"
      [] var = "E" -> "e"
      [] OTHER -> var

\* " + ".join(traits)
RECURSIVE Join(_, _)
Join(sep, strs) ==
    IF strs = <<>> THEN ""
    ELSE IF Len(strs) = 1 THEN strs[1]
    ELSE strs[1] \o sep \o Join(sep, Tail(strs))

\* Owned = lambda var: (var, "", ["FromValue"], "from_value")
Owned(var) == <<var, "", <<"FromValue">>, "from_value">>

\* Mut = lambda var: (f"Mut<{var}>", "&mut", ["?Sized", "UnsafeToMut"], "unsafe_to_mut")
Mut(var) == <<"Mut<" \o var \o ">", "&mut", <<"?Sized", "UnsafeToMut">>, "unsafe_to_mut">>

\* a Ref that carries the modifier of Mut
RefAsMut(var) == <<"Ref<" \o var \o ">", "&mut", <<"?Sized", "UnsafeToRef">>, "unsafe_to_ref">>

\* Ref = lambda var: (f"Ref<{var}>", "&", ["?Sized", "UnsafeToRef"], "unsafe_to_ref")
Ref(var) == <<"Ref<" \o var \o ">", "&", <<"?Sized", "UnsafeToRef">>, "unsafe_to_ref">>

\* p(var) for an element p of the product's list
Apply(p, var) ==
    CASE p = "Owned" -> Owned(var)
      [] p = "Ref" -> Ref(var)
      [] p = "Mut" -> Mut(var)

\* enumerate() counting from 1
OrdinalFromOne(k) == k

\* enumerate(): the k-th pair (k = 1, 2, ...) gets n = k - 1
Ordinal(k) == k - 1

\* one slot group: lines 31-34
Group(k, var, p) ==
    LET t == Apply(p, var)
    IN  [var |-> var,
         var_lower |-> Lower(var),
         ty |-> t[1],
         n |-> ToString(Ordinal(k)),
         mods |-> t[2],
         traits |-> Join(" + ", t[3]),
         coercion |-> t[4]]

Min(a, b) == IF a < b THEN a ELSE b

\* zip(vars, perm) stops at the shorter of the two
Zip(xs, ys) == [k \in 1..Min(Len(xs), Len(ys)) |-> <<xs[k], ys[k]>>]

\* the list `line` after the loop of lines 28-34
Line(rep, perm) ==
    LET z == Zip(Vars, perm)
    IN  [text |-> "        $call!();",
         arity |-> ToString(rep),
         groups |-> [k \in 1..Len(z) |-> Group(k, z[k][1], z[k][2])]]

\* a line whose text is a literal
Literal(text) == [text |-> text, arity |-> "", groups |-> <<>>]

Header == Literal("// Note: Automatically generated using " \o Name)
MacroOpen == Literal("macro_rules! permute {")
ArmOpen == Literal("    ($call:path) => {")
Guard == Literal("        #[cfg(not(test))]")
ArmClose == Literal("    }")
MacroClose == Literal("}")

\* a threshold one too high
GuardedAbove(rep) == rep > 4

\* if repeat >= 4
Guarded(rep) == rep >= 4

\* -------------------------------------------------------------------------
\* itertools.product(list, repeat=n): the tuples are positions into the
\* list, advanced like an odometer whose last wheel turns fastest

FirstIdx(n) == [k \in 1..n |-> 1]

IsLastIdx(ix) == \A k \in 1..Len(ix) : ix[k] = Len(Modes)

\* an odometer whose first wheel turns fastest
NextIdxFirstFastest(ix) ==
    LET j == CHOOSE k \in 1..Len(ix) :
                 ix[k] < Len(Modes) /\ \A m \in 1..(k - 1) : ix[m] = Len(Modes)
    IN  [k \in 1..Len(ix) |-> IF k < j THEN 1 ELSE IF k = j THEN ix[k] + 1 ELSE ix[k]]

\* an odometer that does not reset the wheels it carries over
NextIdxNoReset(ix) ==
    LET j == CHOOSE k \in 1..Len(ix) :
                 ix[k] < Len(Modes) /\ \A m \in (k + 1)..Len(ix) : ix[m] = Len(Modes)
    IN  [k \in 1..Len(ix) |-> IF k = j THEN ix[k] + 1 ELSE ix[k]]

\* the tuple after ix, for ix not the last one
NextIdx(ix) ==
    LET j == CHOOSE k \in 1..Len(ix) :
                 ix[k] < Len(Modes) /\ \A m \in (k + 1)..Len(ix) : ix[m] = Len(Modes)
    IN  [k \in 1..Len(ix) |-> IF k < j THEN ix[k] ELSE IF k = j THEN ix[k] + 1 ELSE 1]

\* the tuple of list elements at positions ix
Perm(ix) == [k \in 1..Len(ix) |-> Modes[ix[k]]]

\* -------------------------------------------------------------------------
\* State

VARIABLES
    file,      \* the lines of macros.rs
    torn,      \* the last line of the file lacks its newline
    pc,        \* position of the emitter
    repeat,    \* loop variable of line 26
    idx,       \* position of the product iterator of line 27
    runs,      \* number of runs of the emitter started
    before,    \* content of the file when the current run started
    lastOut,   \* content of the file when the latest complete run ended
    nodes,     \* the Node objects, in allocation order
    first,     \* List.first (0 is None)
    last,      \* List.last (0 is None)
    current,   \* Iter.current (0 is None)
    out,       \* the values the iteration has yielded
    pushed,    \* the values pushed so far, in order
    startLen,  \* number of values pushed when the iteration started
    iters,     \* number of iterations started
    lpc        \* position of the list script

evars == <<file, torn, pc, repeat, idx, runs, before, lastOut>>
lvars == <<nodes, first, last, current, out, pushed, startLen, iters, lpc>>
vars == <<evars, lvars>>

\* contents the output file may hold before a run
PrevContents ==
    { <<>>,
      <<Literal("// stale"), Literal("fn main() {}")>>,
      <<Header, MacroOpen, ArmOpen, Guard, Line(1, <<"Mut">>)>> }

EmitInit ==
    /\ file \in PrevContents
    /\ torn = FALSE
    /\ pc = "start"
    /\ repeat = 0
    /\ idx = <<>>
    /\ runs = 1
    /\ before = <<>>
    /\ lastOut = <<>>

ListInit ==
    /\ nodes = <<>>
    /\ first = 0
    /\ last = 0
    /\ current = 0
    /\ out = <<>>
    /\ pushed = <<>>
    /\ startLen = 0
    /\ iters = 0
    /\ lpc = "idle"

Init == EmitInit /\ ListInit

\* -------------------------------------------------------------------------
\* tools/function_traits_permute.py : the run

\* opening in append mode keeps the content
OpenAppend(content) == content

\* out.open(mode = 'bw') truncates the file
OpenTruncate(content) == <<>>

\* line 17, the open succeeds
Open ==
    /\ pc = "start"
    /\ before' = file
    /\ file' = OpenTruncate(file)
    /\ torn' = FALSE
    /\ pc' = "l22"
    /\ UNCHANGED <<repeat, idx, runs, lastOut>>
    /\ UNCHANGED lvars

\* line 17, the open raises (path not writable, parent directory missing)
OpenFail ==
    /\ pc = "start"
    /\ before' = file
    /\ pc' = "openfailed"
    /\ UNCHANGED <<file, torn, repeat, idx, runs, lastOut>>
    /\ UNCHANGED lvars

\* pr(text): both writes succeed
Pr(line) ==
    /\ file' = Append(file, line)
    /\ torn' = FALSE

\* line 22
PrHeader ==
    /\ pc = "l22"
    /\ Pr(Header)
    /\ pc' = "l23"
    /\ UNCHANGED <<repeat, idx, runs, before, lastOut>>
    /\ UNCHANGED lvars

\* line 23
PrMacroOpen ==
    /\ pc = "l23"
    /\ Pr(MacroOpen)
    /\ pc' = "l24"
    /\ UNCHANGED <<repeat, idx, runs, before, lastOut>>
    /\ UNCHANGED lvars

\* line 24, then the first repeat of line 26 and the first perm of line 27
PrArmOpen ==
    /\ pc = "l24"
    /\ Pr(ArmOpen)
    /\ pc' = "l36"
    /\ repeat' = 0
    /\ idx' = FirstIdx(0)
    /\ UNCHANGED <<runs, before, lastOut>>
    /\ UNCHANGED lvars

\* lines 36-37
PrGuard ==
    /\ pc = "l36"
    /\ Guarded(repeat)
    /\ Pr(Guard)
    /\ pc' = "l40"
    /\ UNCHANGED <<repeat, idx, runs, before, lastOut>>
    /\ UNCHANGED lvars

\* range(0, len(vars) + 1) is exhausted after repeat = len(vars)
LoopEnds(rep) == rep >= Len(Vars)

\* lines 39-40, then the next perm of line 27 or the next repeat of line 26
PrCall ==
    /\ \/ pc = "l40"
       \/ pc = "l36" /\ ~Guarded(repeat)
    /\ Pr(Line(repeat, Perm(idx)))
    /\ IF ~IsLastIdx(idx)
       THEN /\ idx' = NextIdx(idx)
            /\ repeat' = repeat
            /\ pc' = "l36"
       ELSE IF ~LoopEnds(repeat)
       THEN /\ repeat' = repeat + 1
            /\ idx' = FirstIdx(repeat + 1)
            /\ pc' = "l36"
       ELSE /\ pc' = "l42"
            /\ UNCHANGED <<repeat, idx>>
    /\ UNCHANGED <<runs, before, lastOut>>
    /\ UNCHANGED lvars

\* a run that leaves out the closing line of the macro arm
PrArmCloseSkipped ==
    /\ pc = "l42"
    /\ pc' = "l43"
    /\ UNCHANGED <<file, torn, repeat, idx, runs, before, lastOut>>
    /\ UNCHANGED lvars

\* line 42
PrArmClose ==
    /\ pc = "l42"
    /\ Pr(ArmClose)
    /\ pc' = "l43"
    /\ UNCHANGED <<repeat, idx, runs, before, lastOut>>
    /\ UNCHANGED lvars

\* line 43, then the with block closes the file
PrMacroClose ==
    /\ pc = "l43"
    /\ Pr(MacroClose)
    /\ pc' = "done"
    /\ UNCHANGED <<repeat, idx, runs, before, lastOut>>
    /\ UNCHANGED lvars

\* the line the pr call at pc is about to write
Pending ==
    CASE pc = "l22" -> Header
      [] pc = "l23" -> MacroOpen
      [] pc = "l24" -> ArmOpen
      [] pc = "l36" -> IF Guarded(repeat) THEN Guard ELSE Line(repeat, Perm(idx))
      [] pc = "l40" -> Line(repeat, Perm(idx))
      [] pc = "l42" -> ArmClose
      [] pc = "l43" -> MacroClose

Writing == pc \in {"l22", "l23", "l24", "l36", "l40", "l42", "l43"}

\* pr(text): fd.write(text) raises (line 19); the with block closes the file
WriteFailText ==
    /\ Writing
    /\ pc' = "failed"
    /\ UNCHANGED <<file, torn, repeat, idx, runs, before, lastOut>>
    /\ UNCHANGED lvars

\* pr(text): fd.write(b"\n") raises (line 20); the with block closes the file
WriteFailNewline ==
    /\ Writing
    /\ file' = Append(file, Pending)
    /\ torn' = TRUE
    /\ pc' = "failed"
    /\ UNCHANGED <<repeat, idx, runs, before, lastOut>>
    /\ UNCHANGED lvars

\* the script is run again after a run that completed; in between the file
\* is left alone or replaced by other content
Rerun ==
    /\ pc = "done"
    /\ runs < MaxRuns
    /\ runs' = runs + 1
    /\ lastOut' = file
    /\ file' \in PrevContents \cup {file}
    /\ pc' = "start"
    /\ UNCHANGED <<torn, repeat, idx, before>>
    /\ UNCHANGED lvars

Next ==
    \/ Open
    \/ OpenFail
    \/ PrHeader
    \/ PrMacroOpen
    \/ PrArmOpen
    \/ PrGuard
    \/ PrCall
    \/ PrArmClose
    \/ PrMacroClose
    \/ WriteFailText
    \/ WriteFailNewline
    \/ Rerun

Spec == Init /\ [][Next]_vars

\* -------------------------------------------------------------------------
\* scripts/py/linked_list.py

\* Node(value, next)
Node(value, next) == [value |-> value, next |-> next]

\* a push_back that does not link the previous last node
PushBackNoLink(ns, f, l, value) ==
    LET prev == l
        new == Len(ns) + 1
        alloc == Append(ns, Node(value, 0))
    IN  [nodes |-> alloc,
         first |-> IF prev = 0 THEN new ELSE f,
         last |-> new]

\* List.push_back on the list (ns, f, l): the heap and the fields afterwards
PushBackOn(ns, f, l, value) ==
    LET prev == l
        new == Len(ns) + 1
        alloc == Append(ns, Node(value, 0))
    IN  [nodes |-> IF prev = 0 THEN alloc ELSE [alloc EXCEPT ![prev].next = new],
         first |-> IF prev = 0 THEN new ELSE f,
         last |-> new]

\* ll.push_back(v)
PushBack(v) ==
    /\ Len(pushed) < MaxPush
    /\ LET r == PushBackOn(nodes, first, last, v)
       IN  /\ nodes' = r.nodes
           /\ first' = r.first
           /\ last' = r.last
    /\ pushed' = Append(pushed, v)
    /\ UNCHANGED <<current, out, startLen, iters, lpc>>
    /\ UNCHANGED evars

\* `for value in ll`: List.__iter__ returns Iter(self.first)
IterStart ==
    /\ lpc \in {"idle", "stopped"}
    /\ iters < MaxIters
    /\ iters' = iters + 1
    /\ current' = first
    /\ out' = <<>>
    /\ startLen' = Len(pushed)
    /\ lpc' = "iter"
    /\ UNCHANGED <<nodes, first, last, pushed>>
    /\ UNCHANGED evars

\* Iter.__next__, and out.append(value) of the loop body
IterNext ==
    /\ lpc = "iter"
    /\ LET value == current
       IN  IF value = 0
           THEN /\ lpc' = "stopped"
                /\ UNCHANGED <<current, out>>
           ELSE /\ current' = nodes[value].next
                /\ out' = Append(out, nodes[value].value)
                /\ lpc' = "iter"
    /\ UNCHANGED <<nodes, first, last, pushed, startLen, iters>>
    /\ UNCHANGED evars

ListNext ==
    \/ \E v \in 1..MaxValue : PushBack(v)
    \/ IterStart
    \/ IterNext

\* the list script starts with the emitter not run
ListStart == Init /\ file = <<>>

ListSpec == ListStart /\ [][ListNext]_vars

\* -------------------------------------------------------------------------
\* Vocabulary of the properties

\* the file holds what the current run has written
InOutput == pc \notin {"start", "openfailed"}

IsCall(l) == l.text = "        $call!();"

IsGuard(l) == l.text = "        #[cfg(not(test))]"

Digits == <<"0", "1", "2", "3", "4", "5", "6", "7", "8", "9">>

\* the number a call line starts with
ArityOf(l) == CHOOSE n \in 0..9 : Digits[n + 1] = l.arity

CallIndexes(f) == {i \in DOMAIN f : IsCall(f[i])}

GuardIndexes(f) == {i \in DOMAIN f : IsGuard(f[i])}

RECURSIVE Pow(_, _)
Pow(b, e) == IF e = 0 THEN 1 ELSE b * Pow(b, e - 1)

RECURSIVE SumPow(_, _)
SumPow(b, n) == IF n = 0 THEN 1 ELSE Pow(b, n) + SumPow(b, n - 1)

\* the parameter modes, in the fixed order
ParameterModes == <<"Owned", "SharedRef", "MutableRef">>

ModeSet == {ParameterModes[k] : k \in DOMAIN ParameterModes}

\* the fields a slot named V renders to under mode m
ExpectedFields(m, V) ==
    CASE m = "Owned" ->
            [ty |-> V, mods |-> "", traits |-> "FromValue",
             coercion |-> "from_value"]
      [] m = "SharedRef" ->
            [ty |-> "Ref<" \o V \o ">", mods |-> "&",
             traits |-> "?Sized + UnsafeToRef", coercion |-> "unsafe_to_ref"]
      [] m = "MutableRef" ->
            [ty |-> "Mut<" \o V \o ">", mods |-> "&mut",
             traits |-> "?Sized + UnsafeToMut", coercion |-> "unsafe_to_mut"]

BindingNames == <<"a", "b", "c", "d", "e">>

\* the slot group of position k (k = 1, 2, ...) under mode m
ExpectedGroup(k, m) ==
    LET e == ExpectedFields(m, Vars[k])
    IN  [var |-> Vars[k], var_lower |-> BindingNames[k], ty |-> e.ty,
         n |-> Digits[k], mods |-> e.mods, traits |-> e.traits,
         coercion |-> e.coercion]

\* the emission line of the signature that gives position k the mode sig[k]
ExpectedLine(sig) ==
    [text |-> "        $call!();",
     arity |-> Digits[Len(sig) + 1],
     groups |-> [k \in 1..Len(sig) |-> ExpectedGroup(k, sig[k])]]

Signatures(n) == [1..n -> ModeSet]

\* the mode of a slot group, read off its coercion, as a digit
ModeDigit(g) ==
    CASE g.coercion = "from_value" -> 0
      [] g.coercion = "unsafe_to_ref" -> 1
      [] g.coercion = "unsafe_to_mut" -> 2

\* the mode sequence of a line as a numeral, position 0 most significant
RECURSIVE Numeral(_)
Numeral(gs) ==
    IF gs = <<>> THEN 0
    ELSE Len(ParameterModes) * Numeral(SubSeq(gs, 1, Len(gs) - 1))
         + ModeDigit(gs[Len(gs)])

\* line a comes before line b in (arity, mode numeral) order
LineBefore(a, b) ==
    \/ ArityOf(a) < ArityOf(b)
    \/ ArityOf(a) = ArityOf(b) /\ Numeral(a.groups) < Numeral(b.groups)

\* the index of the call line written just before the call line at i, or 0
PrevCall(f, i) ==
    IF i > 1 /\ IsCall(f[i - 1]) THEN i - 1
    ELSE IF i > 2 /\ IsGuard(f[i - 1]) /\ IsCall(f[i - 2]) THEN i - 2
    ELSE 0

\* -------------------------------------------------------------------------
\* Properties of the emitter

\* C1: in one complete run, for every arity n in 0..len(vars) and every
\* assignment of a mode to each of the n positions, exactly one call line is
\* written for that signature; arity n contributes |modes|^n lines (one for
\* arity 0) and the total is the sum of |modes|^n over n = 0..len(vars).
C1_EverySignatureOnce ==
    pc = "done" =>
        /\ \A n \in 0..Len(Vars) :
              /\ \A sig \in Signatures(n) :
                    Cardinality({i \in DOMAIN file : file[i] = ExpectedLine(sig)}) = 1
              /\ Cardinality({i \in CallIndexes(file) : ArityOf(file[i]) = n})
                     = Pow(Len(ParameterModes), n)
        /\ Cardinality(CallIndexes(file)) = SumPow(Len(ParameterModes), Len(Vars))

C1_Witness ==
    /\ pc = "done"
    /\ Cardinality(CallIndexes(file)) = 364
    /\ Cardinality({i \in CallIndexes(file) : ArityOf(file[i]) = 0}) = 1
    /\ Cardinality({i \in CallIndexes(file) : ArityOf(file[i]) = 5}) = 243

\* C2: call lines are written in a strict total order: arity ascending, and
\* within one arity increasing in the mode sequence read as a base-|modes|
\* numeral with position 0 most significant (Owned < Ref < Mut), so the last
\* slot's mode varies fastest.
C2_EmissionOrder ==
    InOutput =>
        /\ \A i \in CallIndexes(file) :
              PrevCall(file, i) # 0 => LineBefore(file[PrevCall(file, i)], file[i])
        /\ pc = "done" =>
              \A i, j \in CallIndexes(file) : i < j => LineBefore(file[i], file[j])

C2_Witness ==
    /\ pc = "done"
    /\ \E i \in DOMAIN file :
          /\ i + 2 \in DOMAIN file
          /\ file[i] = ExpectedLine(<<"Owned", "Owned">>)
          /\ file[i + 1] = ExpectedLine(<<"Owned", "SharedRef">>)
          /\ file[i + 2] = ExpectedLine(<<"Owned", "MutableRef">>)
    /\ \E i \in DOMAIN file :
          /\ i + 1 \in DOMAIN file
          /\ file[i] = ExpectedLine(<<"MutableRef", "MutableRef">>)
          /\ file[i + 1] = ExpectedLine(<<"Owned", "Owned", "Owned">>)

\* C3: a call line of arity >= 4 has the guard line '#[cfg(not(test))]'
\* immediately before it and a call line of arity < 4 does not; no guard
\* line is followed by anything but a call line, and in a complete output
\* there are as many guard lines as call lines of arity >= 4.
C3_GuardAtThreshold ==
    InOutput =>
        /\ \A i \in CallIndexes(file) :
              IF ArityOf(file[i]) >= 4
              THEN i > 1 /\ IsGuard(file[i - 1])
              ELSE i > 1 => ~IsGuard(file[i - 1])
        /\ \A i \in GuardIndexes(file) :
              i < Len(file) => IsCall(file[i + 1])
        /\ pc = "done" =>
              /\ Len(file) \notin GuardIndexes(file)
              /\ Cardinality(GuardIndexes(file))
                     = Cardinality({i \in CallIndexes(file) : ArityOf(file[i]) >= 4})

C3_Witness ==
    /\ pc = "done"
    /\ \E i \in CallIndexes(file) : ArityOf(file[i]) = 4 /\ IsGuard(file[i - 1])
    /\ \E i \in CallIndexes(file) : ArityOf(file[i]) = 3 /\ IsCall(file[i - 1])
    /\ Cardinality(GuardIndexes(file)) = 324

\* C4: a call line of arity n starts with the literal n and has exactly n
\* slot groups; group i (i = 0..n-1) carries slot name vars[i], its
\* lower-cased binding name and ordinal i.
C4_SlotsInOrder ==
    InOutput =>
        \A i \in CallIndexes(file) :
            LET l == file[i]
                n == Len(l.groups)
            IN  /\ n <= Len(Vars)
                /\ l.arity = Digits[n + 1]
                /\ \A k \in 1..n :
                      /\ l.groups[k].var = Vars[k]
                      /\ l.groups[k].var_lower = BindingNames[k]
                      /\ l.groups[k].n = Digits[k]

C4_Witness ==
    /\ pc = "done"
    /\ \E i \in CallIndexes(file) :
          /\ Len(file[i].groups) = 5
          /\ file[i].groups[5].var = "E"
          /\ file[i].groups[5].n = "4"

\* C5: the rendered type, modifier, capability list and coercion of a slot
\* group are those of one mode applied to that group's slot name:
\* MutableRef gives Mut<V>, '&mut', '?Sized + UnsafeToMut', unsafe_to_mut;
\* SharedRef gives Ref<V>, '&', '?Sized + UnsafeToRef', unsafe_to_ref;
\* Owned gives V, '', 'FromValue', from_value.
C5_FieldsOfOneMode ==
    InOutput =>
        \A i \in CallIndexes(file) :
            \A k \in DOMAIN file[i].groups :
                LET g == file[i].groups[k]
                IN  \E m \in ModeSet :
                        LET e == ExpectedFields(m, g.var)
                        IN  /\ g.ty = e.ty
                            /\ g.mods = e.mods
                            /\ g.traits = e.traits
                            /\ g.coercion = e.coercion

C5_Witness ==
    /\ InOutput
    /\ \E i \in DOMAIN file :
          /\ file[i] = ExpectedLine(<<"MutableRef", "SharedRef", "Owned">>)
          /\ file[i].groups[1].mods = "&mut"
          /\ file[i].groups[2].ty = "Ref<B>"
          /\ file[i].groups[3].traits = "FromValue"

\* a complete output: header, the two opening lines, call and guard lines,
\* the two closing lines, every line terminated
CompleteOutput(f) ==
    /\ ~torn
    /\ Len(f) >= 6
    /\ f[1].text = "// Note: Automatically generated using function_traits_permute.py"
    /\ f[2].text = "macro_rules! permute {"
    /\ f[3].text = "    ($call:path) => {"
    /\ \A i \in 4..(Len(f) - 2) : IsCall(f[i]) \/ IsGuard(f[i])
    /\ IsCall(f[4])
    /\ IsCall(f[Len(f) - 2])
    /\ f[Len(f) - 1].text = "    }"
    /\ f[Len(f)].text = "}"

\* C7: when a run has ended, by completing or by aborting, the file holds
\* either the complete generated text or its content from before the run.
C7_NoPartialFile ==
    pc \in {"done", "failed", "openfailed"} =>
        \/ CompleteOutput(file)
        \/ file = before /\ ~torn

\* C8: the output of a complete run does not depend on what the file held
\* before: a complete run ends with the same lines as the complete run
\* before it, whether the file was left alone in between or replaced.
C8_Idempotent ==
    (pc = "done" /\ runs >= 2) => (file = lastOut /\ ~torn)

C8_Witness ==
    /\ pc = "done"
    /\ runs = 2
    /\ before = lastOut
    /\ file = before
    /\ Len(file) > 600

\* C9: after a complete run the file holds, in this order and nothing else,
\* one header line naming the tool, the two opening lines of the macro
\* definition, the call lines (each with its optional guard line) and the two
\* closing lines; nothing of the previous content is left.
C9_FileLayout ==
    pc = "done" =>
        /\ CompleteOutput(file)
        /\ Cardinality({i \in DOMAIN file : file[i].text = file[1].text}) = 1
        /\ Len(file) = 5 + Cardinality(CallIndexes(file)) + Cardinality(GuardIndexes(file))
        /\ \A i \in DOMAIN file : file[i].text # "// stale"

C9_Witness ==
    /\ pc = "done"
    /\ before # <<>>
    /\ before[1].text = "// stale"
    /\ Len(file) = 693

\* -------------------------------------------------------------------------
\* Properties of the linked list

\* the values met following next from node n, at most k steps
RECURSIVE Walk(_, _)
Walk(n, k) ==
    IF n = 0 \/ k = 0 THEN <<>>
    ELSE <<nodes[n].value>> \o Walk(nodes[n].next, k - 1)

\* the node reached from n by following next until next is None
RECURSIVE EndOf(_, _)
EndOf(n, k) ==
    IF n = 0 \/ k = 0 THEN n
    ELSE IF nodes[n].next = 0 THEN n
    ELSE EndOf(nodes[n].next, k - 1)

\* C10: first is None iff last is None, last.next is None, following next
\* from first visits the pushed values in push order and ends at last; an
\* iteration started after the pushes yields exactly the pushed values in
\* push order and stops, and so does a second one.
C10_FifoIteration ==
    /\ (first = 0) <=> (last = 0)
    /\ last # 0 => nodes[last].next = 0
    /\ Walk(first, Len(nodes) + 1) = pushed
    /\ EndOf(first, Len(nodes) + 1) = last
    /\ (lpc = "stopped" /\ startLen = Len(pushed)) => out = pushed

C10_Witness ==
    /\ lpc = "stopped"
    /\ iters = 2
    /\ startLen = 3
    /\ pushed = <<1, 2, 1>>
    /\ out = <<1, 2, 1>>

====
